---- MODULE Spec2Model ----
(***************************************************************************)
(* Model of src/v3/main.py: the restreamer start/stop scheduler.           *)
(* One sequential script: load config, log in, schedule jobs, then a loop  *)
(* of run_pending / sleep / input / handle.  Every HTTP call and every     *)
(* console read is one step whose outcome the environment chooses.         *)
(***************************************************************************)
EXTENDS Integers, Sequences, FiniteSets, TLC

VARIABLES cfgFile, cfg, pc, token, latest, loginResult, jobs, due, pending,
          user_input, inv, sent, everSent, loopEntered, exitStatus, out

vars == <<cfgFile, cfg, pc, token, latest, loginResult, jobs, due, pending,
          user_input, inv, sent, everSent, loopEntered, exitStatus, out>>

(* ---------------------------- bounds ----------------------------------- *)

\* number of distinct token strings the login endpoint may hand out
MaxTokens == 2

(* ---------------------------- values ----------------------------------- *)

\* None: the value of a token that was not obtained
NoToken == 0

Tokens == 1..MaxTokens

\* a credential value in config.json: key absent, falsy value (null / ""), or a usable value
CredValues == {"missing", "empty", "val"}

\* process_id in config.json: key absent or key present
PidValues == {"missing", "val"}

\* a time value in config.json: key absent, falsy, a valid "HH:MM", or a string schedule rejects
TimeValues == {"missing", "empty", "val", "bad"}

\* Python truthiness of config.get(key)
Truthy(v) == v \in {"val", "bad"}

Configs == [server_address : CredValues, username : CredValues, password : CredValues,
            process_id : PidValues, connect_time : TimeValues, disconnect_time : TimeValues]

EmptyConfig == [server_address |-> "missing", username |-> "missing", password |-> "missing",
                process_id |-> "missing", connect_time |-> "missing", disconnect_time |-> "missing"]

\* load_config(): None when the file is absent or not JSON, else the parsed object
load_config(file, c) == IF file = "ok" THEN [none |-> FALSE, value |-> c]
                                       ELSE [none |-> TRUE, value |-> EmptyConfig]

\* truthiness of the loaded config: None and {} are falsy
ConfigTruthy(loaded) == ~loaded.none /\ \E k \in DOMAIN loaded.value : loaded.value[k] # "missing"

\* outcomes of one HTTP exchange with the command endpoint
Outcomes == {"ok", "network_error", "http_error", "bad_body"}

\* what the console can deliver to input()
RawInputs == {"c", "C", "d", "D", "q", "Q", "", "x"}

\* str.lower() on the console inputs
Lower(s) == CASE s = "C" -> "c"
              [] s = "D" -> "d"
              [] s = "Q" -> "q"
              [] OTHER -> s

LoopPcs == {"run_pending", "jobs", "sleep", "input", "handle"}

NoInv == [kind |-> "none", by |-> "none", status |-> "idle", tok |-> NoToken]

(* ---------------------------- startup ---------------------------------- *)

Init ==
    /\ cfgFile \in {"absent", "invalid", "ok"}
    /\ cfg \in IF cfgFile = "ok" THEN Configs ELSE {EmptyConfig}
    /\ pc = "load"
    /\ token = NoToken
    /\ latest = NoToken
    /\ loginResult = "none"
    /\ jobs = {}
    /\ due = {}
    /\ pending = {}
    /\ user_input = "none"
    /\ inv = NoInv
    /\ sent = <<>>
    /\ everSent = FALSE
    /\ loopEntered = FALSE
    /\ exitStatus = 0
    /\ out = "none"

\* lines 141-143: config = load_config(); if config: ... else fall off the end of the script
LoadConfig ==
    /\ pc = "load"
    /\ IF ConfigTruthy(load_config(cfgFile, cfg))
         THEN /\ pc' = "login"
              /\ out' = out
         ELSE /\ pc' = "exited"
              /\ out' = IF cfgFile = "ok" THEN out ELSE "config_error"
    /\ UNCHANGED <<cfgFile, cfg, token, latest, loginResult, jobs, due, pending,
                   user_input, inv, sent, everSent, loopEntered, exitStatus>>

\* get_access_token / refresh_access_token: the token of the response, or None on
\* a network error, a non-2xx status, a body that is not JSON or has no access_token
LoginOutcomes == Tokens \cup {NoToken}

\* line 149: server_address and username and password
CredentialsPresent(c) ==
    Truthy(c.server_address) /\ Truthy(c.username) /\ Truthy(c.password)

\* a startup that goes on without a token
LoginAcceptedMut(t) == TRUE

\* lines 151-156: only a truthy token lets startup continue; otherwise exit()
LoginAccepted(t) == t # NoToken

\* lines 145-159: read the credentials, log in once, store the token or exit()
Login ==
    /\ pc = "login"
    /\ IF CredentialsPresent(cfg)
         THEN \E t \in LoginOutcomes :
                /\ loginResult' = IF t = NoToken THEN "failed" ELSE "ok"
                /\ latest' = IF t # NoToken THEN t ELSE latest
                /\ IF LoginAccepted(t)
                     THEN /\ token' = t
                          /\ out' = "token_retrieved"
                          /\ pc' = "schedule"
                     ELSE /\ out' = "login_error_exit"
                          /\ pc' = "exited"
                          /\ UNCHANGED token
         ELSE /\ out' = "missing_credentials_exit"
              /\ pc' = "exited"
              /\ UNCHANGED <<token, latest, loginResult>>
    /\ UNCHANGED <<cfgFile, cfg, jobs, due, pending, user_input, inv, sent,
                   everSent, loopEntered, exitStatus>>

\* a startup that tests connect_time for both daily jobs
ScheduledJobsMut(c) ==
    (IF Truthy(c.connect_time) THEN {"connect", "disconnect"} ELSE {}) \cup {"refresh"}

\* lines 164-183: the jobs the startup registers for a config whose times schedule accepts
ScheduledJobs(c) ==
    (IF Truthy(c.connect_time) THEN {"connect"} ELSE {})
      \cup (IF Truthy(c.disconnect_time) THEN {"disconnect"} ELSE {})
      \cup {"refresh"}

\* lines 161-185: register the jobs and enter the loop; schedule's at() raises on a
\* time string it cannot parse, which ends the script with a traceback
ScheduleJobs ==
    /\ pc = "schedule"
    /\ IF cfg.connect_time = "bad"
         THEN /\ jobs' = {}
              /\ pc' = "crashed"
              /\ exitStatus' = 1
              /\ out' = "traceback"
              /\ UNCHANGED loopEntered
         ELSE IF cfg.disconnect_time = "bad"
         THEN /\ jobs' = ScheduledJobs(cfg) \cap {"connect"}
              /\ pc' = "crashed"
              /\ exitStatus' = 1
              /\ out' = "traceback"
              /\ UNCHANGED loopEntered
         ELSE /\ jobs' = ScheduledJobs(cfg)
              /\ pc' = "run_pending"
              /\ loopEntered' = TRUE
              /\ out' = "scheduled_refresh"
              /\ UNCHANGED exitStatus
    /\ UNCHANGED <<cfgFile, cfg, token, latest, loginResult, due, pending,
                   user_input, inv, sent, everSent>>

(* ---------------------------- the clock -------------------------------- *)

\* schedule's should_run: a registered job becomes due when its time arrives, whatever
\* the script is doing at that moment (sleeping, waiting for input, inside a request)
TimePasses(j) ==
    /\ pc \in LoopPcs
    /\ j \in jobs \ due
    /\ due' = due \cup {j}
    /\ UNCHANGED <<cfgFile, cfg, pc, token, latest, loginResult, jobs, pending,
                   user_input, inv, sent, everSent, loopEntered, exitStatus, out>>

(* ---------------------------- the dispatcher --------------------------- *)

\* connect_stream: primary first, then the snapshot variant
ConnectPlan == << [target |-> "primary", verb |-> "start"],
                  [target |-> "snapshot", verb |-> "start"] >>

\* disconnect_stream: snapshot first, then the primary
DisconnectPlan == << [target |-> "snapshot", verb |-> "stop"],
                     [target |-> "primary", verb |-> "stop"] >>

Plan(kind) == IF kind = "connect" THEN ConnectPlan ELSE DisconnectPlan

\* the Authorization header of a command: config['authorization_token'] at the call
CarriedToken == token

\* a dispatcher without the JSONDecodeError clause
CaughtMut(outcome) == outcome \in {"network_error", "http_error"}

\* the except clauses of send_restreamer_command: RequestException covers network
\* errors and raise_for_status; a body that is not JSON is a JSONDecodeError
Caught(outcome) == outcome \in {"network_error", "http_error", "bad_body"}

\* a dispatcher that returns whether the command went through
SendReturnMut(outcome) == IF outcome = "ok" THEN "True" ELSE "False"

\* send_restreamer_command has no return statement: every path yields None
SendReturn(outcome) == "None"

\* the last line send_restreamer_command prints: the response body or an error line
SendLine(outcome) == IF outcome = "ok" THEN "response" ELSE "error"

\* entering connect_stream / disconnect_stream: the arguments of the first call are
\* evaluated before any request, and config['process_id'] raises KeyError when absent
BeginStream(kind, by) ==
    /\ sent' = <<>>
    /\ IF cfg.process_id = "missing"
         THEN /\ inv' = [kind |-> kind, by |-> by, status |-> "raised", tok |-> token]
              /\ pc' = "crashed"
              /\ exitStatus' = 1
              /\ out' = "traceback"
         ELSE /\ inv' = [kind |-> kind, by |-> by, status |-> "running", tok |-> token]
              /\ out' = IF kind = "connect" THEN "connecting" ELSE "disconnecting"
              /\ UNCHANGED <<pc, exitStatus>>

\* one send_restreamer_command call of the composite in progress, with the outcome
\* of its HTTP exchange; after the second call the composite returns to its caller
SendCommand ==
    /\ pc \in {"jobs", "handle"}
    /\ inv.status = "running"
    /\ \E o \in Outcomes :
         LET k == Len(sent) + 1
             cmd == [target |-> Plan(inv.kind)[k].target, verb |-> Plan(inv.kind)[k].verb,
                     token |-> CarriedToken, outcome |-> o, ret |-> SendReturn(o),
                     line |-> SendLine(o), raised |-> (o # "ok" /\ ~Caught(o))]
         IN  /\ sent' = Append(sent, cmd)
             /\ everSent' = TRUE
             /\ IF cmd.raised
                  THEN /\ inv' = [inv EXCEPT !.status = "raised"]
                       /\ pc' = "crashed"
                       /\ exitStatus' = 1
                       /\ out' = "traceback"
                       /\ UNCHANGED due
                  ELSE IF k < Len(Plan(inv.kind))
                  THEN /\ out' = cmd.line
                       /\ UNCHANGED <<inv, pc, exitStatus, due>>
                  ELSE /\ inv' = [inv EXCEPT !.status = "returned"]
                       /\ out' = "initiated"
                       /\ pc' = IF inv.by = "manual" THEN "run_pending" ELSE pc
                       /\ due' = IF inv.by = "job" THEN due \ {inv.kind} ELSE due
                       /\ UNCHANGED exitStatus
    /\ UNCHANGED <<cfgFile, cfg, token, latest, loginResult, jobs, pending,
                   user_input, loopEntered>>

(* ---------------------------- the loop --------------------------------- *)

\* a loop that also runs the scheduler while it waits for input
EvalPendingMut ==
    /\ pc \in {"run_pending", "input"}
    /\ pending' = due \cap jobs
    /\ pc' = "jobs"
    /\ UNCHANGED <<cfgFile, cfg, token, latest, loginResult, jobs, due,
                   user_input, inv, sent, everSent, loopEntered, exitStatus, out>>

\* line 186, schedule.run_pending(): the due jobs are collected once, then run
EvalPending ==
    /\ pc = "run_pending"
    /\ pending' = due \cap jobs
    /\ pc' = "jobs"
    /\ UNCHANGED <<cfgFile, cfg, token, latest, loginResult, jobs, due,
                   user_input, inv, sent, everSent, loopEntered, exitStatus, out>>

\* lines 177-182: the refresh job calls refresh_access_token and schedule drops the
\* value it returns; config['authorization_token'] is not assigned
TokenAfterRefresh(cur, new) == cur

\* run_pending runs the token-refresh job
RunRefreshJob ==
    /\ pc = "jobs"
    /\ inv.status # "running"
    /\ "refresh" \in pending
    /\ \E t \in LoginOutcomes :
         /\ latest' = IF t # NoToken THEN t ELSE latest
         /\ token' = TokenAfterRefresh(token, t)
         /\ out' = IF t # NoToken THEN "refreshed" ELSE "refresh_error"
    /\ pending' = pending \ {"refresh"}
    /\ due' = due \ {"refresh"}
    /\ UNCHANGED <<cfgFile, cfg, pc, loginResult, jobs, user_input, inv, sent,
                   everSent, loopEntered, exitStatus>>

\* run_pending runs a daily connect or disconnect job
RunStreamJob(j) ==
    /\ pc = "jobs"
    /\ inv.status # "running"
    /\ j \in pending \cap {"connect", "disconnect"}
    /\ pending' = pending \ {j}
    /\ BeginStream(j, "job")
    /\ UNCHANGED <<cfgFile, cfg, token, latest, loginResult, jobs, due,
                   user_input, everSent, loopEntered>>

\* run_pending returns once every collected job has run
FinishJobs ==
    /\ pc = "jobs"
    /\ inv.status # "running"
    /\ pending = {}
    /\ pc' = "sleep"
    /\ UNCHANGED <<cfgFile, cfg, token, latest, loginResult, jobs, due, pending,
                   user_input, inv, sent, everSent, loopEntered, exitStatus, out>>

\* line 187: time.sleep(1)
Sleep ==
    /\ pc = "sleep"
    /\ pc' = "input"
    /\ UNCHANGED <<cfgFile, cfg, token, latest, loginResult, jobs, due, pending,
                   user_input, inv, sent, everSent, loopEntered, exitStatus, out>>

\* line 189: input(...).lower() returns a line of the console
ReadInput ==
    /\ pc = "input"
    /\ \E raw \in RawInputs : user_input' = Lower(raw)
    /\ pc' = "handle"
    /\ UNCHANGED <<cfgFile, cfg, token, latest, loginResult, jobs, due, pending,
                   inv, sent, everSent, loopEntered, exitStatus, out>>

\* line 189: input() raises EOFError when the console is closed; nothing catches it
ReadEOF ==
    /\ pc = "input"
    /\ user_input' = "eof"
    /\ pc' = "crashed"
    /\ exitStatus' = 1
    /\ out' = "traceback"
    /\ UNCHANGED <<cfgFile, cfg, token, latest, loginResult, jobs, due, pending,
                   inv, sent, everSent, loopEntered>>

\* lines 191-194: 'c' calls connect_stream, 'd' calls disconnect_stream
HandleStream ==
    /\ pc = "handle"
    /\ inv.status # "running"
    /\ user_input \in {"c", "d"}
    /\ BeginStream(IF user_input = "c" THEN "connect" ELSE "disconnect", "manual")
    /\ UNCHANGED <<cfgFile, cfg, token, latest, loginResult, jobs, due, pending,
                   user_input, everSent, loopEntered>>

\* lines 195-197: 'q' prints "Exiting." and breaks; the script ends
HandleQuit ==
    /\ pc = "handle"
    /\ user_input = "q"
    /\ pc' = "exited"
    /\ out' = "exiting"
    /\ UNCHANGED <<cfgFile, cfg, token, latest, loginResult, jobs, due, pending,
                   user_input, inv, sent, everSent, loopEntered, exitStatus>>

\* lines 198-199: any other non-empty input prints the error; an empty line prints nothing
HandleOther ==
    /\ pc = "handle"
    /\ user_input \notin {"c", "d", "q"}
    /\ out' = IF user_input # "" THEN "invalid_input" ELSE out
    /\ pc' = "run_pending"
    /\ UNCHANGED <<cfgFile, cfg, token, latest, loginResult, jobs, due, pending,
                   user_input, inv, sent, everSent, loopEntered, exitStatus>>

Next ==
    \/ LoadConfig
    \/ Login
    \/ ScheduleJobs
    \/ \E j \in {"connect", "disconnect", "refresh"} : TimePasses(j)
    \/ EvalPending
    \/ RunRefreshJob
    \/ \E j \in {"connect", "disconnect"} : RunStreamJob(j)
    \/ FinishJobs
    \/ SendCommand
    \/ Sleep
    \/ ReadInput
    \/ ReadEOF
    \/ HandleStream
    \/ HandleQuit
    \/ HandleOther

Spec == Init /\ [][Next]_vars

(* ---------------------------- properties ------------------------------- *)

Terminated == pc \in {"exited", "crashed"}

\* the three fatal startup conditions: no config, a credential missing, no token at login
FatalStartup ==
    cfgFile # "ok" \/ ~CredentialsPresent(cfg) \/ loginResult = "failed"

\* the (target, verb) pairs of the commands of the current invocation, in order
Calls(s) == [i \in DOMAIN s |-> [target |-> s[i].target, verb |-> s[i].verb]]

\* C1: every outbound start/stop command carries the most recently obtained token
\* (the one of the last successful login or refresh).
C1_CommandsCarryLatestToken ==
    [][Len(sent') > Len(sent) => sent'[Len(sent')].token = latest]_vars

\* C2: when the config is absent, a credential is missing or the initial login
\* yields no token, no job is ever scheduled, the loop is never entered and no
\* command is ever sent.
C2_AbortBeforeScheduling ==
    FatalStartup =>
        /\ jobs = {}
        /\ ~loopEntered
        /\ ~everSent
        /\ pc \notin LoopPcs \cup {"schedule"}

C2_Witness ==
    pc = "exited" /\ cfgFile = "ok" /\ CredentialsPresent(cfg) /\ loginResult = "failed"

\* C3: the exit status is 0 when the loop ends on 'q' and non-zero on every fatal
\* startup path.
C3_ExitStatus ==
    /\ (pc = "exited" /\ loopEntered /\ user_input = "q") => exitStatus = 0
    /\ (Terminated /\ FatalStartup) => exitStatus # 0

\* C4: every invocation of connect_stream issues exactly two commands, in the
\* order (primary, start), (snapshot, start), whatever their outcomes.
C4_ConnectTwoCalls ==
    (inv.kind = "connect" /\ inv.status \in {"returned", "raised"})
        => Calls(sent) = << [target |-> "primary", verb |-> "start"],
                            [target |-> "snapshot", verb |-> "start"] >>

\* C5: every invocation of disconnect_stream issues exactly two commands, in the
\* order (snapshot, stop), (primary, stop), whatever their outcomes.
C5_DisconnectTwoCalls ==
    (inv.kind = "disconnect" /\ inv.status \in {"returned", "raised"})
        => Calls(sent) = << [target |-> "snapshot", verb |-> "stop"],
                            [target |-> "primary", verb |-> "stop"] >>

\* the first command of the current invocation was sent and failed
FirstFailed(s) == Len(s) >= 1 /\ s[1].outcome # "ok"

\* C6: when the first command of a composite fails (network error, non-2xx status
\* or malformed body) nothing is raised: the composite is still running with the
\* second command ready to go, and the step that follows is that second command,
\* after which the composite has returned, the loop is running and the token is
\* the one the composite started with.
C6_FailureNotFatal ==
    /\ [](FirstFailed(sent) /\ Len(sent) = 1
            => /\ inv.status = "running"
               /\ pc \in LoopPcs
               /\ exitStatus = 0
               /\ token = inv.tok
               /\ ENABLED SendCommand)
    /\ [][(FirstFailed(sent) /\ Len(sent) = 1 /\ <<pc, inv, sent, token>>' # <<pc, inv, sent, token>>)
            => /\ Len(sent') = 2
               /\ Calls(sent')[2] = Plan(inv.kind)[2]
               /\ inv'.status = "returned"
               /\ pc' \in LoopPcs
               /\ exitStatus' = 0
               /\ token' = inv.tok]_vars

C6_Witness ==
    /\ inv.status = "returned"
    /\ Len(sent) = 2
    /\ sent[1].outcome = "bad_body"
    /\ pc \in LoopPcs
    /\ token = inv.tok

\* C7 as claimed: a failed call (HTTP 500 or any other failure) returns, without
\* raising, a value that differs from the value a successful call returns.
C7_FailureIndicator ==
    \A i \in DOMAIN sent :
        sent[i].outcome # "ok" => (~sent[i].raised /\ sent[i].ret # SendReturn("ok"))

\* C7 as amended: no call raises, every call returns the same empty value (None)
\* whether it failed or succeeded, and only the printed line tells the outcomes
\* apart (an error line exactly when the call failed).
C7_NoResultOnlyLog ==
    \A i \in DOMAIN sent :
        /\ ~sent[i].raised
        /\ sent[i].ret = "None"
        /\ (sent[i].line = "error") <=> (sent[i].outcome # "ok")

C7_Witness ==
    /\ Len(sent) = 2
    /\ sent[1].outcome = "http_error"
    /\ sent[2].outcome = "ok"
    /\ sent[1].ret = sent[2].ret

\* C8: once entered, the loop ends only on 'q': it has terminated exactly when 'q'
\* has been read and handled, it is still running after any other input, and an
\* unrecognized non-empty input prints the error line and sends no command.
C8_TerminatesOnlyOnQuit ==
    /\ (loopEntered /\ Terminated) => (pc = "exited" /\ user_input = "q")
    /\ (loopEntered /\ user_input = "q" /\ pc # "handle") => pc = "exited"
    /\ (user_input = "x" /\ pc = "run_pending") => (out = "invalid_input" /\ inv.status # "running")

\* C9: after a successful startup the connect job is scheduled iff connect_time has
\* a value, the disconnect job iff disconnect_time has a value, the refresh job
\* always (three jobs when both times are set); and a startup with a token that
\* ends before the loop was entered had a time string the scheduler rejected, never
\* a missing one.
C9_JobsFollowConfig ==
    /\ loopEntered =>
         /\ ("connect" \in jobs) <=> (cfg.connect_time \in {"val", "bad"})
         /\ ("disconnect" \in jobs) <=> (cfg.disconnect_time \in {"val", "bad"})
         /\ "refresh" \in jobs
         /\ (cfg.connect_time = "val" /\ cfg.disconnect_time = "val") => Cardinality(jobs) = 3
    /\ (Terminated /\ ~FatalStartup /\ ~loopEntered)
         => (cfg.connect_time = "bad" \/ cfg.disconnect_time = "bad")

C9_Witness ==
    /\ loopEntered
    /\ cfg.connect_time = "missing"
    /\ cfg.disconnect_time = "val"
    /\ jobs = {"disconnect", "refresh"}

\* the order of the loop's steps, and the ways out of it
LoopOrder ==
    { <<"run_pending", "jobs">>, <<"jobs", "sleep">>, <<"jobs", "crashed">>,
      <<"sleep", "input">>, <<"input", "handle">>, <<"input", "crashed">>,
      <<"handle", "run_pending">>, <<"handle", "exited">>, <<"handle", "crashed">> }

\* C10: the loop steps follow one another in the fixed order run_pending, sleep,
\* input, handle; the due jobs are collected only by run_pending and run only
\* inside it, so a job that becomes due while the loop sleeps, waits for input or
\* handles a manual command stays due until the next run_pending.
C10_StrictSequence ==
    [][/\ (pc \in LoopPcs /\ pc' # pc) => <<pc, pc'>> \in LoopOrder
       /\ (pending' # pending) => pc \in {"run_pending", "jobs"}
       /\ ~(pending' \subseteq pending) => pc = "run_pending"
       /\ (pc \in {"sleep", "input", "handle"}) => due \subseteq due'
       /\ (inv' # inv /\ inv'.by = "job") => pc = "jobs"]_vars

C10_Witness ==
    /\ pc = "handle"
    /\ inv.by = "manual"
    /\ inv.status = "running"
    /\ "disconnect" \in due
    /\ pending = {}

====
